---- MODULE Spec2Model ----
(***************************************************************************)
(* A model of google/go-cabfile: the Cabinet parser (cabfile.New), the     *)
(* folder decompression engine (Cabinet.folderData), random access         *)
(* (Cabinet.Content), the sequential iterator (Cabinet.Next), FileList,    *)
(* and lvfscab.CompareVersions.                                            *)
(*                                                                         *)
(* The archive is a sequence of bytes (0..255) behind a seekable reader;   *)
(* every record is decoded from those bytes in the little-endian layout    *)
(* that binary.Read applies to the cfHeader/cfFolder/cfFile/cfData         *)
(* structs.  The archives the model explores are produced by an encoder    *)
(* from a structured description (arch), which stays in the state as a     *)
(* history variable: the properties compare what the code decoded with     *)
(* what was encoded.                                                       *)
(***************************************************************************)
EXTENDS Integers, Sequences, FiniteSets, TLC

VARIABLES
    arch,       \* history: the description the archive bytes were built from
    r,          \* Cabinet.r: the source, [data, pos, kind]
    phase,      \* "raw" before New, "open" after New succeeded, "rejected"
                \* after New failed, "crashed" after a run-time panic,
                \* "ver" in the version-comparison specification
    newErr,     \* the error New returned ("" is nil)
    hdr,        \* Cabinet.hdr
    fldrs,      \* Cabinet.fldrs
    files,      \* Cabinet.files
    nextIdx,    \* Cabinet.nextIdx
    nextRdr,    \* Cabinet.nextRdr: [set, buf, off] (set = FALSE is nil)
    last,       \* history: the most recent call and what it returned
    decomps,    \* history: folderData calls made by Next so far
    served,     \* history: Next calls that returned a reader so far
    freshPos,   \* history: the source cursor right after New returned
    failed,     \* history: the first call that returned an error other than
                \* io.EOF, [any, err, folder]
    ver,        \* the CompareVersions call: [v1, v2, done, res]
    heap,       \* the bytes.Readers that c.nextRdr pointed to earlier, oldest
                \* first; the one it points to now has the next number
    lims        \* the io.LimitedReaders that Next returned, in order:
                \* [R, N, entry, got, eof]

vars == <<arch, r, phase, newErr, hdr, fldrs, files, nextIdx, nextRdr, last,
          decomps, served, freshPos, failed, ver, heap, lims>>

(***************************************************************************)
(* Bounds of the exploration.                                              *)
(***************************************************************************)
MaxFiles == 3
MaxBlocks == 2
MaxParts == 3
MaxBuf == 2
MaxReaders == 2

(***************************************************************************)
(* Arithmetic and sequence helpers.                                        *)
(***************************************************************************)
Min(a, b) == IF a < b THEN a ELSE b
Max(a, b) == IF a > b THEN a ELSE b

RECURSIVE Pow2(_)
Pow2(n) == IF n = 0 THEN 1 ELSE 2 * Pow2(n - 1)

\* x >> n and x & (2^n - 1) on unsigned integers
Shr(x, n) == x \div Pow2(n)
LowBits(x, n) == x % Pow2(n)

RECURSIVE Concat(_)
Concat(ss) == IF ss = <<>> THEN <<>> ELSE Head(ss) \o Concat(Tail(ss))

RECURSIVE SumSeq(_)
SumSeq(ns) == IF ns = <<>> THEN 0 ELSE Head(ns) + SumSeq(Tail(ns))

RECURSIVE SeqsUpTo(_, _)
SeqsUpTo(S, n) ==
    IF n = 0 THEN {<<>>}
    ELSE LET shorter == SeqsUpTo(S, n - 1)
         IN  shorter \cup {Append(s, x) : s \in {t \in shorter : Len(t) = n - 1}, x \in S}

(***************************************************************************)
(* Record sizes and little-endian (de)serialisation, as binary.Read with   *)
(* binary.LittleEndian lays the structs out.                                *)
(***************************************************************************)
HdrSize == 36
FolderRecSize == 8
FileRecSize == 16
DataRecSize == 8

LE16(n) == <<n % 256, (n \div 256) % 256>>
LE32(n) == <<n % 256, (n \div 256) % 256, (n \div 65536) % 256, (n \div 16777216) % 256>>
U8(b, at) == b[at + 1]
U16(b, at) == b[at + 1] + 256 * b[at + 2]
U32(b, at) == b[at + 1] + 256 * b[at + 2] + 65536 * b[at + 3] + 16777216 * b[at + 4]

\* "MSCF" and "CK"
MSCF == <<77, 83, 67, 70>>
CK == <<67, 75>>

hdrPrevCabinet == 1
hdrNextCabinet == 2
hdrReservePresent == 4

compMask == 15
compNone == 0
compMSZIP == 1
compQuantum == 2
compLZX == 3

\* x & mask for the masks the code uses (a power of two, or 2^n - 1)
BitAnd(x, mask) ==
    IF mask = compMask THEN x % 16
    ELSE mask * ((x \div mask) % 2)

DecodeHeader(b) ==
    [Signature    |-> SubSeq(b, 1, 4),
     Reserved1    |-> U32(b, 4),
     CBCabinet    |-> U32(b, 8),
     Reserved2    |-> U32(b, 12),
     COFFFiles    |-> U32(b, 16),
     Reserved3    |-> U32(b, 20),
     VersionMinor |-> U8(b, 24),
     VersionMajor |-> U8(b, 25),
     CFolders     |-> U16(b, 26),
     CFiles       |-> U16(b, 28),
     Flags        |-> U16(b, 30),
     SetID        |-> U16(b, 32),
     ICabinet     |-> U16(b, 34)]

DecodeFolder(b) ==
    [COFFCabStart |-> U32(b, 0),
     CCFData      |-> U16(b, 4),
     TypeCompress |-> U16(b, 6)]

DecodeFile(b) ==
    [CBFile          |-> U32(b, 0),
     UOffFolderStart |-> U32(b, 4),
     IFolder         |-> U16(b, 8),
     Date            |-> U16(b, 10),
     Time            |-> U16(b, 12),
     Attribs         |-> U16(b, 14)]

DecodeData(b) ==
    [Checksum |-> U32(b, 0),
     CBData   |-> U16(b, 4),
     CBUncomp |-> U16(b, 6)]

(***************************************************************************)
(* The source: an io.ReadSeeker over a byte slice.  kind is the concrete   *)
(* reader: "bytes.Reader" reports io.EOF for every Read at or past the     *)
(* end, also one of zero bytes; "os.File" returns (0, nil) for a Read of   *)
(* zero bytes.                                                             *)
(***************************************************************************)
SeekStart(rd, off) == [rd EXCEPT !.pos = off]

Avail(rd) == IF rd.pos >= Len(rd.data) THEN 0 ELSE Len(rd.data) - rd.pos

\* binary.Read of an n-byte struct (io.ReadFull): all n bytes or an error
BinaryRead(rd, n) ==
    IF Avail(rd) >= n
    THEN [ok |-> TRUE, bytes |-> SubSeq(rd.data, rd.pos + 1, rd.pos + n),
          r |-> [rd EXCEPT !.pos = rd.pos + n]]
    ELSE [ok |-> FALSE, bytes |-> <<>>,
          r |-> [rd EXCEPT !.pos = Max(rd.pos, Len(rd.data))]]

\* one call of Read(p) with len(p) = n: (bytes read, error)
ReadOnce(rd, n) ==
    IF n = 0 /\ rd.kind = "os.File"
    THEN [n |-> 0, err |-> "", bytes |-> <<>>, r |-> rd]
    ELSE IF Avail(rd) = 0
    THEN [n |-> 0, err |-> "EOF", bytes |-> <<>>, r |-> rd]
    ELSE LET m == Min(n, Avail(rd))
         IN  [n |-> m, err |-> "", bytes |-> SubSeq(rd.data, rd.pos + 1, rd.pos + m),
              r |-> [rd EXCEPT !.pos = rd.pos + m]]

\* bufio.NewReader(r).ReadBytes(0): the reader fills its buffer from the
\* source (defaultBufSize bytes at a time) until the delimiter shows up; the
\* source cursor ends wherever the last fill stopped.
defaultBufSize == 4096

RECURSIVE IndexOfZero(_, _)
IndexOfZero(data, from) ==
    IF from > Len(data) THEN 0
    ELSE IF data[from] = 0 THEN from
    ELSE IndexOfZero(data, from + 1)

ReadBytesZero(rd) ==
    LET z == IndexOfZero(rd.data, rd.pos + 1)
    IN  IF z = 0
        THEN [ok |-> FALSE, fn |-> <<>>,
              r |-> [rd EXCEPT !.pos = Max(rd.pos, Len(rd.data))]]
        ELSE LET fills == ((z - rd.pos) + defaultBufSize - 1) \div defaultBufSize
             IN  [ok |-> TRUE, fn |-> SubSeq(rd.data, rd.pos + 1, z),
                  r |-> [rd EXCEPT !.pos = Min(Len(rd.data), rd.pos + fills * defaultBufSize)]]

(***************************************************************************)
(* cabfile.New                                                             *)
(***************************************************************************)
NoHdr == DecodeHeader([i \in 1..HdrSize |-> 0])

NewFail(e, rd) == [err |-> e, hdr |-> NoHdr, fldrs |-> <<>>, files |-> <<>>, r |-> rd]

\* the compression check of the CFFOLDER loop
NewSupports(typeCompress) ==
    BitAnd(typeCompress, compMask) \in {compNone, compMSZIP}

\* the CFFOLDER loop: [err, fldrs, r]
RECURSIVE ReadFolders(_, _, _, _)
ReadFolders(rd, i, n, acc) ==
    IF i >= n THEN [err |-> "", fldrs |-> acc, r |-> rd]
    ELSE LET rec == BinaryRead(rd, FolderRecSize)
         IN  IF ~rec.ok THEN [err |-> "deserialize folder", fldrs |-> acc, r |-> rec.r]
             ELSE LET fldr == DecodeFolder(rec.bytes)
                  IN  IF ~NewSupports(fldr.TypeCompress)
                      THEN [err |-> "unsupported algorithm", fldrs |-> acc, r |-> rec.r]
                      ELSE ReadFolders(rec.r, i + 1, n, Append(acc, fldr))

\* the cursor after a file name: r.Seek(off+int64(len(fn)), io.SeekStart)
AfterName(off, fn) == off + Len(fn)

\* a file loop that leaves the cursor where the buffered reader left it
LeaveCursor(rd, off, fn) == rd

\* the seek that ends an iteration of the file loop; rd is the source as
\* the buffered reader left it
RestoreCursor(rd, off, fn) == SeekStart(rd, AfterName(off, fn))

\* the CFFILE loop: [err, files, r]
RECURSIVE ReadFiles(_, _, _, _)
ReadFiles(rd, i, n, acc) ==
    IF i >= n THEN [err |-> "", files |-> acc, r |-> rd]
    ELSE LET rec == BinaryRead(rd, FileRecSize)
         IN  IF ~rec.ok THEN [err |-> "deserialize file", files |-> acc, r |-> rec.r]
             ELSE LET off == rec.r.pos
                      nm == ReadBytesZero(rec.r)
                  IN  IF ~nm.ok THEN [err |-> "read filename", files |-> acc, r |-> nm.r]
                      ELSE LET f == DecodeFile(rec.bytes)
                               entry == [CBFile |-> f.CBFile,
                                         UOffFolderStart |-> f.UOffFolderStart,
                                         IFolder |-> f.IFolder,
                                         Date |-> f.Date, Time |-> f.Time,
                                         Attribs |-> f.Attribs,
                                         name |-> SubSeq(nm.fn, 1, Len(nm.fn) - 1)]
                           IN  ReadFiles(RestoreCursor(nm.r, off, nm.fn),
                                         i + 1, n, Append(acc, entry))

\* a New that also turns down the reserved-area flag (the check the source
\* keeps commented out)
HeaderCheckStrict(h) ==
    IF h.Signature # MSCF THEN "invalid signature"
    ELSE IF h.Reserved1 # 0 \/ h.Reserved2 # 0 \/ h.Reserved3 # 0 THEN "reserved fields"
    ELSE IF h.VersionMajor # 1 \/ h.VersionMinor # 3 THEN "unsupported version"
    ELSE IF h.Flags # 0 THEN "multi-part"
    ELSE ""

\* the four header checks, in the order New makes them ("" when all pass)
HeaderCheck(h) ==
    IF h.Signature # MSCF THEN "invalid signature"
    ELSE IF h.Reserved1 # 0 \/ h.Reserved2 # 0 \/ h.Reserved3 # 0 THEN "reserved fields"
    ELSE IF h.VersionMajor # 1 \/ h.VersionMinor # 3 THEN "unsupported version"
    ELSE IF BitAnd(h.Flags, hdrPrevCabinet) # 0 \/ BitAnd(h.Flags, hdrNextCabinet) # 0
         THEN "multi-part"
    ELSE ""

\* New(r): [err, hdr, fldrs, files, r]
NewCabinet(rd) ==
    LET r0 == SeekStart(rd, 0)
        h == BinaryRead(r0, HdrSize)
    IN  IF ~h.ok THEN NewFail("deserialize header", h.r)
        ELSE LET hd == DecodeHeader(h.bytes)
                 chk == HeaderCheck(hd)
             IN  IF chk # "" THEN NewFail(chk, h.r)
                 ELSE LET fo == ReadFolders(h.r, 0, hd.CFolders, <<>>)
                      IN  IF fo.err # "" THEN NewFail(fo.err, fo.r)
                          ELSE LET fi == ReadFiles(SeekStart(fo.r, hd.COFFFiles), 0,
                                                   hd.CFiles, <<>>)
                               IN  IF fi.err # "" THEN NewFail(fi.err, fi.r)
                                   ELSE [err |-> "", hdr |-> hd, fldrs |-> fo.fldrs,
                                         files |-> fi.files, r |-> fi.r]

(***************************************************************************)
(* compress/flate as the code uses it.  The deflate bit stream is          *)
(* abstracted to one token per byte: a byte below 128 is a literal, a byte *)
(* b >= 128 copies the byte that lies b - 127 positions back in the window *)
(* (the preset dictionary followed by the output so far); a distance that  *)
(* reaches before the window is corrupt input.                             *)
(***************************************************************************)
RECURSIVE InflateFrom(_, _, _)
InflateFrom(tokens, window, dictLen) ==
    IF tokens = <<>>
    THEN [out |-> SubSeq(window, dictLen + 1, Len(window)), err |-> "EOF"]
    ELSE LET b == Head(tokens)
         IN  IF b < 128 THEN InflateFrom(Tail(tokens), Append(window, b), dictLen)
             ELSE IF b - 127 > Len(window)
             THEN [out |-> SubSeq(window, dictLen + 1, Len(window)), err |-> "corrupt"]
             ELSE InflateFrom(Tail(tokens),
                              Append(window, window[Len(window) - (b - 127) + 1]), dictLen)

\* flate.NewReader(src) when the history is empty, else
\* flate.NewReaderDict(src, history), followed by one r.Read(data) with
\* len(data) = want: [n, err, data]
FlateRead(tokens, history, want) ==
    LET z == InflateFrom(tokens, history, Len(history))
        n == Min(want, Len(z.out))
    IN  [n |-> n,
         err |-> IF n = Len(z.out) THEN z.err ELSE "",
         data |-> SubSeq(z.out, 1, n)]

(***************************************************************************)
(* Cabinet.folderData                                                      *)
(***************************************************************************)
\* var history []byte
InitialHistory == <<>>

\* a block loop that never updates the history
StaleHistory(history, data) == history

\* history = data
NextHistory(history, data) == data

\* the operand of the switch in the block loop
SwitchTag(typeCompress) == typeCompress

FdFail(e, rd, dicts, outs) ==
    [err |-> e, buf |-> <<>>, r |-> rd, dicts |-> dicts, outs |-> outs]

\* the block loop: dicts and outs log, for every block decoded, the
\* dictionary handed to flate and the bytes written to buf
RECURSIVE FolderBlocks(_, _, _, _, _, _, _)
FolderBlocks(rd, fldr, i, history, buf, dicts, outs) ==
    IF i >= fldr.CCFData
    THEN [err |-> "", buf |-> buf, r |-> rd, dicts |-> dicts, outs |-> outs]
    ELSE
    LET rec == BinaryRead(rd, DataRecSize) IN
    IF ~rec.ok THEN FdFail("deserialize data", rec.r, dicts, outs)
    ELSE
    LET d == DecodeData(rec.bytes)
        blk == ReadOnce(rec.r, d.CBData)
        block == blk.bytes
    IN
    IF blk.n # d.CBData THEN FdFail("invalid read", blk.r, dicts, outs)
    ELSE IF blk.err # "" THEN FdFail("could not read data block", blk.r, dicts, outs)
    ELSE IF SwitchTag(fldr.TypeCompress) = compNone
    THEN IF d.CBData # d.CBUncomp THEN FdFail("size mismatch", blk.r, dicts, outs)
         ELSE FolderBlocks(blk.r, fldr, i + 1, history, buf \o block,
                           dicts, Append(outs, block))
    ELSE IF SwitchTag(fldr.TypeCompress) = compMSZIP
    THEN \* block[:2] on a slice of capacity below 2 is a run-time panic
         IF Len(block) < 2 THEN FdFail("panic", blk.r, dicts, outs)
         ELSE IF SubSeq(block, 1, 2) # CK
         THEN FdFail("invalid MS-ZIP signature", blk.r, dicts, outs)
         ELSE LET fr == FlateRead(SubSeq(block, 3, Len(block)), history, d.CBUncomp)
              IN  IF fr.n # d.CBUncomp
                  THEN FdFail("invalid decompression", blk.r, Append(dicts, history), outs)
                  ELSE IF fr.err # "" /\ fr.err # "EOF"
                  THEN FdFail("could not decompress", blk.r, Append(dicts, history), outs)
                  ELSE FolderBlocks(blk.r, fldr, i + 1, NextHistory(history, fr.data),
                                    buf \o fr.data, Append(dicts, history),
                                    Append(outs, fr.data))
    ELSE FdFail("unsupported compression", blk.r, dicts, outs)

\* a folderData that reads on from wherever the source cursor is
FolderStartHere(rd, fldr) == rd

\* c.r.Seek(int64(fldr.COFFCabStart), io.SeekStart)
FolderStart(rd, fldr) == SeekStart(rd, fldr.COFFCabStart)

\* c.folderData(idx) with the source at rd: [err, buf, r, dicts, outs]
FolderData(rd, fs, idx) ==
    IF idx >= Len(fs) THEN FdFail("folder number out of range", rd, <<>>, <<>>)
    ELSE LET fldr == fs[idx + 1]
         IN  FolderBlocks(FolderStart(rd, fldr), fldr, 0, InitialHistory, <<>>, <<>>, <<>>)

(***************************************************************************)
(* What a call returns.  err = "" is a nil error; for Content out is the   *)
(* content of the returned reader; for Next info is the os.FileInfo and    *)
(* limit the N of the io.LimitReader over c.nextRdr; for FileList names is *)
(* the slice returned.  nfd counts the folderData calls the call made, fd  *)
(* is the log of that folderData call, folder the index it was given.      *)
(***************************************************************************)
NoInfo == [name |-> <<>>, size |-> 0, modTime |-> <<>>]
NoFd == [err |-> "", buf |-> <<>>, dicts |-> <<>>, outs |-> <<>>]
FdLog(fd) == [err |-> fd.err, buf |-> fd.buf, dicts |-> fd.dicts, outs |-> fd.outs]

NoCall ==
    [op |-> "", name |-> <<>>, err |-> "", rdr |-> FALSE, out |-> <<>>,
     info |-> NoInfo, limit |-> 0, names |-> <<>>, nfd |-> 0, fd |-> NoFd,
     folder |-> -1, entry |-> 0]

(***************************************************************************)
(* Cabinet.Content                                                         *)
(***************************************************************************)
\* a scan that keeps going after a match and so ends on the last one
RECURSIVE FindLastFile(_, _, _)
FindLastFile(fs, i, name) ==
    IF i > Len(fs) THEN 0
    ELSE LET later == FindLastFile(fs, i + 1, name)
         IN  IF later # 0 THEN later
             ELSE IF fs[i].name = name THEN i ELSE 0

\* the range loop: the 1-based index of the entry the loop body runs for,
\* 0 when the loop ends without a match
RECURSIVE FindFile(_, _, _)
FindFile(fs, i, name) ==
    IF i > Len(fs) THEN 0
    ELSE IF fs[i].name # name THEN FindFile(fs, i + 1, name)
    ELSE i

\* the loop body for entry f: [call, r]
ContentOf(rd, fs, f, name, at) ==
    LET fd == FolderData(rd, fs, f.IFolder)
        base == [NoCall EXCEPT !.op = "Content", !.name = name, !.nfd = 1,
                               !.fd = FdLog(fd), !.folder = f.IFolder, !.entry = at]
    IN  IF fd.err # "" THEN [call |-> [base EXCEPT !.err = fd.err], r |-> fd.r]
        ELSE LET data == [data |-> fd.buf, pos |-> f.UOffFolderStart, kind |-> "bytes.Reader"]
                 blob == ReadOnce(data, f.CBFile)
             IN  IF blob.n # f.CBFile
                 THEN [call |-> [base EXCEPT !.err = "invalid read of file data"], r |-> fd.r]
                 ELSE IF blob.err # ""
                 THEN [call |-> [base EXCEPT !.err = "could not read file data"], r |-> fd.r]
                 ELSE [call |-> [base EXCEPT !.rdr = TRUE, !.out = blob.bytes], r |-> fd.r]

\* a Content that keeps the folder it decompressed as the iterator's buffer
ContentCaches(nrdr, call) ==
    IF call.nfd = 1 /\ call.fd.err = ""
    THEN [set |-> TRUE, buf |-> call.fd.buf, off |-> 0]
    ELSE nrdr

\* c.nextRdr after a Content call: Content reads through a reader of its
\* own (data) and assigns no field of the Cabinet
ContentKeeps(nrdr, call) == nrdr

\* c.Content(name) with the source at rd: [call, r]
ContentCall(rd, fs, fl, name) ==
    LET at == FindFile(fl, 1, name)
    IN  IF at = 0
        THEN [call |-> [NoCall EXCEPT !.op = "Content", !.name = name, !.err = "not found"],
              r |-> rd]
        ELSE ContentOf(rd, fs, fl[at], name, at)

(***************************************************************************)
(* Cabinet.Next                                                            *)
(***************************************************************************)
NoRdr == [set |-> FALSE, buf |-> <<>>, off |-> 0]

\* an iterator that opens the folder anew for every file
AlwaysNeedFolder(fl, idx) == TRUE

\* c.nextIdx == 0 || c.files[c.nextIdx-1].IFolder != f.IFolder
NeedFolder(fl, idx) ==
    idx = 0 \/ fl[idx].IFolder # fl[idx + 1].IFolder

\* an iterator that forgets to advance
StayIdx(idx) == idx

\* c.nextIdx++
AdvanceIdx(idx) == idx + 1

\* the unpacking of the DOS date and time (time.Date gets these arguments)
ModTime(f) ==
    <<Shr(f.Date, 9) + 1980, LowBits(Shr(f.Date, 5), 4), LowBits(f.Date, 5),
      Shr(f.Time, 11), LowBits(Shr(f.Time, 5), 6), 2 * LowBits(f.Time, 5)>>

\* c.Next(): [call, r, nextIdx, nextRdr]
NextCall(rd, fs, fl, idx, nrdr) ==
    LET base == [NoCall EXCEPT !.op = "Next"]
    IN
    IF idx >= Len(fl)
    THEN [call |-> [base EXCEPT !.err = "EOF"], r |-> rd, nextIdx |-> idx, nextRdr |-> nrdr]
    ELSE
    LET f == fl[idx + 1]
        need == NeedFolder(fl, idx)
        fd == FolderData(rd, fs, f.IFolder)
        ran == IF need
               THEN [base EXCEPT !.nfd = 1, !.fd = FdLog(fd), !.folder = f.IFolder]
               ELSE base
    IN
    IF need /\ fd.err # ""
    THEN [call |-> [ran EXCEPT !.err = fd.err], r |-> fd.r, nextIdx |-> idx, nextRdr |-> nrdr]
    ELSE
    LET opened == IF need THEN [set |-> TRUE, buf |-> fd.buf, off |-> 0] ELSE nrdr
        sought == [opened EXCEPT !.off = f.UOffFolderStart]
    IN  [call |-> [ran EXCEPT !.rdr = TRUE, !.limit = f.CBFile, !.entry = idx + 1,
                              !.info = [name |-> f.name, size |-> f.CBFile,
                                        modTime |-> ModTime(f)]],
         r |-> IF need THEN fd.r ELSE rd,
         nextIdx |-> AdvanceIdx(idx),
         nextRdr |-> sought]

(***************************************************************************)
(* Cabinet.FileList                                                        *)
(***************************************************************************)
FileListCall(fl) ==
    [NoCall EXCEPT !.op = "FileList", !.names = [i \in 1..Len(fl) |-> fl[i].name]]

(***************************************************************************)
(* The readers Next hands out.  c.nextRdr points to a bytes.Reader over a  *)
(* folder's buffer; Next returns io.LimitReader(c.nextRdr, CBFile), which  *)
(* keeps that pointer.  A Next call that opens a folder makes c.nextRdr    *)
(* point to a new bytes.Reader; the earlier one lives on in the readers    *)
(* that were returned before.  bytes.Readers are numbered in the order     *)
(* they were made: 1..Len(heap) are the earlier ones, Len(heap) + 1 is the *)
(* one c.nextRdr points to.                                                *)
(***************************************************************************)
\* c.nextRdr = data: the heap after a Next call
Retire(hp, nrdr, call) ==
    IF call.err = "" /\ call.nfd = 1 /\ nrdr.set THEN Append(hp, nrdr) ELSE hp

\* io.LimitReader(c.nextRdr, int64(f.CBFile))
LimitReader(R, N, entry) == [R |-> R, N |-> N, entry |-> entry, got |-> <<>>, eof |-> FALSE]

\* the readers handed out after a Next call; hp is the heap after the call
Returned(ls, hp, call) ==
    IF call.err = "" THEN Append(ls, LimitReader(Len(hp) + 1, call.limit, call.entry))
    ELSE ls

\* the bytes.Reader of a number
Deref(hp, nrdr, R) == IF R <= Len(hp) THEN hp[R] ELSE nrdr

\* (*io.LimitedReader).Read(p) with len(p) = n over the bytes.Reader obj:
\* [n, err, bytes, off], off the cursor of obj afterwards
LimitedRead(lim, obj, n) ==
    IF lim.N <= 0 THEN [n |-> 0, err |-> "EOF", bytes |-> <<>>, off |-> obj.off]
    ELSE LET rd == ReadOnce([data |-> obj.buf, pos |-> obj.off, kind |-> "bytes.Reader"],
                            Min(n, lim.N))
         IN  [n |-> rd.n, err |-> rd.err, bytes |-> rd.bytes, off |-> rd.r.pos]

\* Read calls with buffers of MaxBuf bytes until one returns io.EOF: the
\* bytes a caller gets who reads lim to exhaustion
RECURSIVE Drain(_, _)
Drain(lim, obj) ==
    LET res == LimitedRead(lim, obj, MaxBuf)
    IN  IF res.err # "" THEN <<>>
        ELSE res.bytes \o Drain([lim EXCEPT !.N = @ - res.n], [obj EXCEPT !.off = res.off])

(***************************************************************************)
(* The archives explored.  A description holds the header fields, the      *)
(* folders (compression type and CFDATA blocks) and the file entries; the  *)
(* encoder lays them out as gcab does: CFHEADER, the CFFOLDER records, the *)
(* CFFILE records with their names, then the CFDATA blocks folder by       *)
(* folder.  cut removes that many bytes from the end of the image.         *)
(***************************************************************************)
Blk(cb, un, payload) == [CBData |-> cb, CBUncomp |-> un, payload |-> payload]

Fl(size, off, ifolder, name) ==
    [CBFile |-> size, UOffFolderStart |-> off, IFolder |-> ifolder,
     Date |-> 20196, Time |-> 27818, Attribs |-> 32, name |-> name]

EncodeHeader(h) ==
    h.Signature \o LE32(h.Reserved1) \o LE32(h.CBCabinet) \o LE32(h.Reserved2)
    \o LE32(h.COFFFiles) \o LE32(h.Reserved3) \o <<h.VersionMinor, h.VersionMajor>>
    \o LE16(h.CFolders) \o LE16(h.CFiles) \o LE16(h.Flags) \o LE16(h.SetID)
    \o LE16(h.ICabinet)

EncodeFile(f) ==
    LE32(f.CBFile) \o LE32(f.UOffFolderStart) \o LE16(f.IFolder) \o LE16(f.Date)
    \o LE16(f.Time) \o LE16(f.Attribs) \o f.name \o <<0>>

EncodeBlock(b) == LE32(0) \o LE16(b.CBData) \o LE16(b.CBUncomp) \o b.payload

EncodeBlocks(fo) == Concat([i \in 1..Len(fo.blocks) |-> EncodeBlock(fo.blocks[i])])

FilesOffset(folders) == HdrSize + FolderRecSize * Len(folders)

DataOffset(folders, fl) ==
    FilesOffset(folders) + SumSeq([i \in 1..Len(fl) |-> Len(EncodeFile(fl[i]))])

\* the offset of the first CFDATA block of folder i (1-based)
FolderOffset(folders, fl, i) ==
    DataOffset(folders, fl) + SumSeq([j \in 1..(i - 1) |-> Len(EncodeBlocks(folders[j]))])

EncodeFolder(folders, fl, i) ==
    LE32(FolderOffset(folders, fl, i)) \o LE16(Len(folders[i].blocks))
    \o LE16(folders[i].TypeCompress)

ImageLen(folders, fl) == FolderOffset(folders, fl, Len(folders) + 1)

GoodHeader(folders, fl) ==
    [Signature |-> MSCF, Reserved1 |-> 0, CBCabinet |-> ImageLen(folders, fl),
     Reserved2 |-> 0, COFFFiles |-> FilesOffset(folders), Reserved3 |-> 0,
     VersionMinor |-> 3, VersionMajor |-> 1, CFolders |-> Len(folders),
     CFiles |-> Len(fl), Flags |-> 0, SetID |-> 0, ICabinet |-> 0]

Arch(h, folders, fl, cut, kind) ==
    [hdr |-> h, folders |-> folders, files |-> fl, cut |-> cut, kind |-> kind]

Encode(a) ==
    LET full == EncodeHeader(a.hdr)
                \o Concat([i \in 1..Len(a.folders) |-> EncodeFolder(a.folders, a.files, i)])
                \o Concat([i \in 1..Len(a.files) |-> EncodeFile(a.files[i])])
                \o Concat([i \in 1..Len(a.folders) |-> EncodeBlocks(a.folders[i])])
    IN  SubSeq(full, 1, Len(full) - a.cut)

\* file names: "a", "b", "cd"
NameA == <<97>>
NameB == <<98>>
NameCD == <<99, 100>>
QueryNames == {NameA, NameB, NameCD}

\* an uncompressed folder of two blocks, 3 bytes in all
GoodNone ==
    [TypeCompress |-> compNone,
     blocks |-> <<Blk(2, 2, <<10, 11>>), Blk(1, 1, <<12>>)>>]

\* an MS-ZIP folder of two blocks, 4 bytes in all; the second block copies
\* from the first block's output
GoodZip ==
    [TypeCompress |-> compMSZIP,
     blocks |-> <<Blk(4, 2, CK \o <<20, 21>>), Blk(4, 2, CK \o <<129, 22>>)>>]

BlockTemplates ==
    {Blk(2, 2, <<10, 11>>),            \* stored bytes, no signature
     Blk(1, 2, <<12>>),                \* counts differ; shorter than a signature
     Blk(0, 0, <<>>),                  \* empty
     Blk(4, 2, CK \o <<20, 21>>),      \* two literals
     Blk(4, 2, CK \o <<129, 22>>)}     \* a copy from two bytes back, a literal

FileTemplates ==
    {Fl(2, 0, 0, NameA),      \* the head of folder 0
     Fl(2, 1, 1, NameB),      \* inside folder 1
     Fl(1, 2, 0, NameB),      \* ends exactly at the end of folder 0
     Fl(1, 0, 2, NameA)}      \* a folder index past the folder table

\* file tables of up to MaxFiles entries over two well-formed folders
ArchsFiles ==
    {Arch(GoodHeader(<<GoodNone, GoodZip>>, fl), <<GoodNone, GoodZip>>, fl, 0, "bytes.Reader") :
        fl \in SeqsUpTo(FileTemplates, MaxFiles)}

\* one file of every offset and size around the length of its folder
ArchsRange ==
    {Arch(GoodHeader(<<fo>>, <<Fl(sz, off, 0, NameA)>>), <<fo>>,
          <<Fl(sz, off, 0, NameA)>>, 0, "bytes.Reader") :
        fo \in {GoodNone, GoodZip}, sz \in 0..4, off \in 0..5}

\* folders of every compression type over up to MaxBlocks blocks, each after
\* a well-formed MS-ZIP folder; one file per folder.  The kind of the source
\* matters where a Read of zero bytes happens: with an empty block.
FolderVariety ==
    {[TypeCompress |-> t, blocks |-> bs] :
        t \in {compNone, compMSZIP}, bs \in SeqsUpTo(BlockTemplates, MaxBlocks)}
    \cup
    {[TypeCompress |-> t, blocks |-> bs] :
        t \in {compQuantum, 16, 17},
        bs \in {<<>>, <<Blk(2, 2, <<10, 11>>)>>, <<Blk(4, 2, CK \o <<20, 21>>)>>}}

OneFilePerFolder(folders) ==
    [i \in 1..Len(folders) |-> Fl(1, 0, i - 1, IF i = 1 THEN NameA ELSE NameB)]

HasEmptyBlock(fo) == \E i \in 1..Len(fo.blocks) : fo.blocks[i].CBData = 0

FolderPair(fo) == <<GoodZip, fo>>

ArchsFolders ==
    {Arch(GoodHeader(FolderPair(fo), OneFilePerFolder(FolderPair(fo))), FolderPair(fo),
          OneFilePerFolder(FolderPair(fo)), 0, "bytes.Reader") : fo \in FolderVariety}
    \cup
    {Arch(GoodHeader(FolderPair(fo), OneFilePerFolder(FolderPair(fo))), FolderPair(fo),
          OneFilePerFolder(FolderPair(fo)), 0, "os.File") :
        fo \in {f \in FolderVariety : HasEmptyBlock(f)}}

\* headers of every combination of a few values per field, over one folder
\* and one file
HeaderBody == <<GoodNone>>
HeaderFiles == <<Fl(2, 0, 0, NameA)>>

HeaderVariety ==
    {[GoodHeader(HeaderBody, HeaderFiles) EXCEPT
        !.Signature = sig, !.Reserved1 = r1, !.Reserved2 = r2, !.Reserved3 = r3,
        !.VersionMajor = v[1], !.VersionMinor = v[2], !.Flags = fl,
        !.SetID = sid, !.ICabinet = ic, !.CBCabinet = cb] :
        sig \in {MSCF, <<77, 83, 67, 71>>, <<109, 83, 67, 70>>},
        r1 \in {0, 1}, r2 \in {0, 256}, r3 \in {0, 16777216},
        v \in {<<1, 3>>, <<3, 1>>, <<1, 2>>, <<0, 3>>},
        fl \in {0, hdrPrevCabinet, hdrNextCabinet, hdrReservePresent},
        sid \in {0, 4660}, ic \in {0, 1}, cb \in {0, ImageLen(HeaderBody, HeaderFiles)}}

ArchsHeaders ==
    {Arch(h, HeaderBody, HeaderFiles, 0, "bytes.Reader") : h \in HeaderVariety}

\* every prefix of one well-formed image
CutFolders == <<GoodNone, GoodZip>>
CutFiles == <<Fl(2, 0, 0, NameA), Fl(2, 1, 1, NameCD)>>

ArchsCut ==
    {Arch(GoodHeader(CutFolders, CutFiles), CutFolders, CutFiles, cut, "bytes.Reader") :
        cut \in 1..ImageLen(CutFolders, CutFiles)}

Archs == ArchsFiles \cup ArchsRange \cup ArchsFolders \cup ArchsHeaders \cup ArchsCut

(***************************************************************************)
(* The state machine of one Cabinet.                                       *)
(***************************************************************************)
NoVer == [v1 |-> <<>>, v2 |-> <<>>, done |-> FALSE, res |-> 0]
NoFailure == [any |-> FALSE, err |-> "", folder |-> -1]

Init ==
    /\ arch \in Archs
    /\ r = [data |-> Encode(arch), pos |-> 0, kind |-> arch.kind]
    /\ phase = "raw"
    /\ newErr = ""
    /\ hdr = NoHdr
    /\ fldrs = <<>>
    /\ files = <<>>
    /\ nextIdx = 0
    /\ nextRdr = NoRdr
    /\ last = NoCall
    /\ decomps = 0
    /\ served = 0
    /\ freshPos = 0
    /\ failed = NoFailure
    /\ ver = NoVer
    /\ heap = <<>>
    /\ lims = <<>>

\* cabinet, err := cabfile.New(r)
New ==
    /\ phase = "raw"
    /\ LET c == NewCabinet(r)
       IN  /\ r' = c.r
           /\ newErr' = c.err
           /\ phase' = IF c.err = "" THEN "open" ELSE "rejected"
           /\ hdr' = c.hdr
           /\ fldrs' = c.fldrs
           /\ files' = c.files
           /\ freshPos' = c.r.pos
    /\ nextIdx' = 0
    /\ nextRdr' = NoRdr
    /\ UNCHANGED <<arch, last, decomps, served, failed, ver, heap, lims>>

Remember(was, call) ==
    IF was.any \/ call.err \in {"", "EOF"} THEN was
    ELSE [any |-> TRUE, err |-> call.err, folder |-> call.folder]

AfterCall(call) == IF call.err = "panic" THEN "crashed" ELSE "open"

\* cabinet.Content(name)
Content(name) ==
    /\ phase = "open"
    /\ LET c == ContentCall(r, fldrs, files, name)
       IN  /\ r' = c.r
           /\ last' = c.call
           /\ phase' = AfterCall(c.call)
           /\ failed' = Remember(failed, c.call)
           /\ nextRdr' = ContentKeeps(nextRdr, c.call)
    /\ UNCHANGED <<arch, newErr, hdr, fldrs, files, nextIdx, decomps, served,
                   freshPos, ver, heap, lims>>

\* cabinet.Next(); the guard caps the history counter
CabinetNext ==
    /\ phase = "open"
    /\ decomps <= nextIdx + 1
    /\ LET c == NextCall(r, fldrs, files, nextIdx, nextRdr)
       IN  /\ r' = c.r
           /\ last' = c.call
           /\ nextIdx' = c.nextIdx
           /\ nextRdr' = c.nextRdr
           /\ decomps' = decomps + c.call.nfd
           /\ served' = IF c.call.err = "" THEN served + 1 ELSE served
           /\ phase' = AfterCall(c.call)
           /\ failed' = Remember(failed, c.call)
           /\ heap' = Retire(heap, nextRdr, c.call)
           /\ lims' = Returned(lims, Retire(heap, nextRdr, c.call), c.call)
    /\ UNCHANGED <<arch, newErr, hdr, fldrs, files, freshPos, ver>>

\* cabinet.FileList()
FileList ==
    /\ phase = "open"
    /\ last' = FileListCall(files)
    /\ UNCHANGED <<arch, r, phase, newErr, hdr, fldrs, files, nextIdx, nextRdr, decomps,
                   served, freshPos, failed, ver, heap, lims>>

\* n, err := rdr.Read(buf) on the k-th reader that Next returned, with
\* len(buf) = n
Read(k, n) ==
    /\ phase = "open"
    /\ k \in 1..Len(lims)
    /\ LET lim == lims[k]
           res == LimitedRead(lim, Deref(heap, nextRdr, lim.R), n)
       IN  /\ lims' = [lims EXCEPT ![k] = [lim EXCEPT !.N = lim.N - res.n,
                                                     !.got = lim.got \o res.bytes,
                                                     !.eof = lim.eof \/ res.err = "EOF"]]
           /\ IF lim.R <= Len(heap)
              THEN /\ heap' = [heap EXCEPT ![lim.R].off = res.off]
                   /\ nextRdr' = nextRdr
              ELSE /\ nextRdr' = [nextRdr EXCEPT !.off = res.off]
                   /\ heap' = heap
    /\ UNCHANGED <<arch, r, phase, newErr, hdr, fldrs, files, nextIdx, last, decomps,
                   served, freshPos, failed, ver>>

Next ==
    \/ New
    \/ \E name \in QueryNames : Content(name)
    \/ CabinetNext
    \/ FileList

Spec == Init /\ [][Next]_vars

(***************************************************************************)
(* The iterator with a caller that reads from the readers it got, in any   *)
(* order and at any time, as the loop of TestNextCall does (New, then Next *)
(* and r.Read), over file tables of up to MaxReaders entries and the file  *)
(* tables of ArchsRange.                                                   *)
(***************************************************************************)
ArchsRead == {a \in ArchsFiles : Len(a.files) <= MaxReaders} \cup ArchsRange

InitRead == Init /\ arch \in ArchsRead

NextRead ==
    \/ New
    \/ CabinetNext
    \/ \E k \in 1..MaxReaders, n \in 1..MaxBuf : Read(k, n)

SpecRead == InitRead /\ [][NextRead]_vars

(***************************************************************************)
(* lvfscab.CompareVersions.  Strings are sequences of bytes.  semver.Make  *)
(* and Version.Compare are the calls into github.com/blang/semver that     *)
(* CompareVersions makes: Make accepts MAJOR.MINOR.PATCH with an optional  *)
(* -PRERELEASE and +BUILD tail, numbers without leading zeroes; Compare    *)
(* orders by the three numbers and then by the pre-release identifiers     *)
(* (Semantic Versioning 2.0.0, section 11), ignoring the build tail.       *)
(***************************************************************************)
Dot == 46
Plus == 43
Hyphen == 45

IsDigit(c) == c >= 48 /\ c <= 57
IsAlphaNum(c) == IsDigit(c) \/ (c >= 65 /\ c <= 90) \/ (c >= 97 /\ c <= 122) \/ c = Hyphen

ContainsOnly(str, P(_)) == \A i \in 1..Len(str) : P(str[i])
HasLeadingZeroes(str) == Len(str) > 1 /\ str[1] = 48

\* strings.IndexRune: the 1-based index of the first c in str, 0 when absent
RECURSIVE IndexRune(_, _, _)
IndexRune(str, c, from) ==
    IF from > Len(str) THEN 0
    ELSE IF str[from] = c THEN from
    ELSE IndexRune(str, c, from + 1)

\* strings.SplitN(str, ".", n) for n >= 1 and strings.Split (n = -1)
RECURSIVE SplitN(_, _)
SplitN(str, n) ==
    LET at == IndexRune(str, Dot, 1)
    IN  IF n = 1 \/ at = 0 THEN <<str>>
        ELSE <<SubSeq(str, 1, at - 1)>> \o SplitN(SubSeq(str, at + 1, Len(str)), n - 1)

RECURSIVE ParseUint(_)
ParseUint(digits) ==
    IF digits = <<>> THEN 0
    ELSE 10 * ParseUint(SubSeq(digits, 1, Len(digits) - 1)) + (digits[Len(digits)] - 48)

\* a numeric field: digits only, no leading zeroes, not empty
NumberOK(str) == ContainsOnly(str, IsDigit) /\ ~HasLeadingZeroes(str) /\ str # <<>>

\* semver.NewPRVersion: [ok, num, n, str]
NewPRVersion(str) ==
    IF str = <<>> THEN [ok |-> FALSE, num |-> FALSE, n |-> 0, str |-> str]
    ELSE IF ContainsOnly(str, IsDigit)
    THEN [ok |-> ~HasLeadingZeroes(str), num |-> TRUE, n |-> ParseUint(str), str |-> <<>>]
    ELSE [ok |-> ContainsOnly(str, IsAlphaNum), num |-> FALSE, n |-> 0, str |-> str]

BuildOK(str) == str # <<>> /\ ContainsOnly(str, IsAlphaNum)

NoVersion == [ok |-> FALSE, Major |-> 0, Minor |-> 0, Patch |-> 0, Pre |-> <<>>]

\* semver.Make(s): [ok, Major, Minor, Patch, Pre]; ok = FALSE is an error
SemverMake(str) ==
    IF str = <<>> THEN NoVersion
    ELSE
    LET parts == SplitN(str, 3) IN
    IF Len(parts) # 3 THEN NoVersion
    ELSE
    LET tail == parts[3]
        bi == IndexRune(tail, Plus, 1)
        build == IF bi = 0 THEN <<>> ELSE SplitN(SubSeq(tail, bi + 1, Len(tail)), -1)
        noBuild == IF bi = 0 THEN tail ELSE SubSeq(tail, 1, bi - 1)
        pi == IndexRune(noBuild, Hyphen, 1)
        pre == IF pi = 0 THEN <<>> ELSE SplitN(SubSeq(noBuild, pi + 1, Len(noBuild)), -1)
        patchStr == IF pi = 0 THEN noBuild ELSE SubSeq(noBuild, 1, pi - 1)
    IN  IF /\ NumberOK(parts[1])
           /\ NumberOK(parts[2])
           /\ NumberOK(patchStr)
           /\ \A i \in 1..Len(pre) : NewPRVersion(pre[i]).ok
           /\ \A i \in 1..Len(build) : BuildOK(build[i])
        THEN [ok |-> TRUE, Major |-> ParseUint(parts[1]), Minor |-> ParseUint(parts[2]),
              Patch |-> ParseUint(patchStr),
              Pre |-> [i \in 1..Len(pre) |-> NewPRVersion(pre[i])]]
        ELSE NoVersion

\* strings.Compare
RECURSIVE StringsCompare(_, _)
StringsCompare(a, b) ==
    IF a = <<>> /\ b = <<>> THEN 0
    ELSE IF a = <<>> THEN -1
    ELSE IF b = <<>> THEN 1
    ELSE IF Head(a) < Head(b) THEN -1
    ELSE IF Head(a) > Head(b) THEN 1
    ELSE StringsCompare(Tail(a), Tail(b))

CompareInts(a, b) == IF a < b THEN -1 ELSE IF a > b THEN 1 ELSE 0

\* PRVersion.Compare
PRCompare(p, q) ==
    IF p.num /\ ~q.num THEN -1
    ELSE IF ~p.num /\ q.num THEN 1
    ELSE IF p.num /\ q.num THEN CompareInts(p.n, q.n)
    ELSE StringsCompare(p.str, q.str)

RECURSIVE PreCompare(_, _)
PreCompare(ps, qs) ==
    IF ps = <<>> /\ qs = <<>> THEN 0
    ELSE IF ps = <<>> THEN -1
    ELSE IF qs = <<>> THEN 1
    ELSE IF PRCompare(Head(ps), Head(qs)) # 0 THEN PRCompare(Head(ps), Head(qs))
    ELSE PreCompare(Tail(ps), Tail(qs))

\* Version.Compare
SemverCompare(v, o) ==
    IF v.Major # o.Major THEN CompareInts(v.Major, o.Major)
    ELSE IF v.Minor # o.Minor THEN CompareInts(v.Minor, o.Minor)
    ELSE IF v.Patch # o.Patch THEN CompareInts(v.Patch, o.Patch)
    ELSE IF v.Pre = <<>> /\ o.Pre = <<>> THEN 0
    ELSE IF v.Pre = <<>> THEN 1
    ELSE IF o.Pre = <<>> THEN -1
    ELSE PreCompare(v.Pre, o.Pre)

\* a test that is content with one of the two parsing
EitherParses(s1, s2) == s1.ok \/ s2.ok

\* err1 == nil && err2 == nil
BothParse(s1, s2) == s1.ok /\ s2.ok

CompareVersions(v1, v2) ==
    LET s1 == SemverMake(v1)
        s2 == SemverMake(v2)
    IN  IF BothParse(s1, s2) THEN SemverCompare(s1, s2)
        ELSE StringsCompare(v1, v2)

(***************************************************************************)
(* The version strings explored: up to MaxParts dot-separated numbers,     *)
(* bare or with a pre-release or build tail, and the strings of            *)
(* TestVersionComparison; each is compared with a few fixed strings.       *)
(***************************************************************************)
\* "0", "1", "9", "10", "01"
Numbers == {<<48>>, <<49>>, <<57>>, <<49, 48>>, <<48, 49>>}

\* "", "-1", "-a", "+a"
Tails == {<<>>, <<45, 49>>, <<45, 97>>, <<43, 97>>}

RECURSIVE Join(_)
Join(parts) ==
    IF Len(parts) = 1 THEN parts[1]
    ELSE parts[1] \o <<Dot>> \o Join(Tail(parts))

\* "RQR12.07_B0030" and "RQR12.07_B0029"
RQR30 == <<82, 81, 82, 49, 50, 46, 48, 55, 95, 66, 48, 48, 51, 48>>
RQR29 == <<82, 81, 82, 49, 50, 46, 48, 55, 95, 66, 48, 48, 50, 57>>

\* "1.0.0", "1.0.1", "0.9", "1.0", "123", "100", "12", "9", "1"
V100 == <<49, 46, 48, 46, 48>>
V101 == <<49, 46, 48, 46, 49>>
V09 == <<48, 46, 57>>
V10 == <<49, 46, 48>>
V123 == <<49, 50, 51>>
VHundred == <<49, 48, 48>>
V12 == <<49, 50>>
V9 == <<57>>
V1 == <<49>>

LeftVersions ==
    {Join(ps) \o t : ps \in (SeqsUpTo(Numbers, MaxParts) \ {<<>>}), t \in Tails}
    \cup {RQR30, V123, V12, <<>>, <<49, 46, 46, 48>>}

\* the fixed right-hand sides, among them "9.0.0", "1.0.0-1", "1.0.0-a",
\* "1.0.0-1.a", "1.0.0+a", "1.0.-1" and ""
RightVersions ==
    {RQR29, V100, V101, V10, VHundred, V9, V1,
     <<57, 46, 48, 46, 48>>,
     V100 \o <<45, 49>>, V100 \o <<45, 97>>, V100 \o <<45, 49, 46, 97>>,
     V100 \o <<43, 97>>, <<49, 46, 48, 46, 45, 49>>, <<>>}

NoArch == Arch(NoHdr, <<>>, <<>>, 0, "bytes.Reader")

InitVer ==
    /\ arch = NoArch
    /\ r = [data |-> <<>>, pos |-> 0, kind |-> "bytes.Reader"]
    /\ phase = "ver"
    /\ newErr = ""
    /\ hdr = NoHdr
    /\ fldrs = <<>>
    /\ files = <<>>
    /\ nextIdx = 0
    /\ nextRdr = NoRdr
    /\ last = NoCall
    /\ decomps = 0
    /\ served = 0
    /\ freshPos = 0
    /\ failed = NoFailure
    /\ heap = <<>>
    /\ lims = <<>>
    /\ \E v1 \in LeftVersions, v2 \in RightVersions :
          ver = [v1 |-> v1, v2 |-> v2, done |-> FALSE, res |-> 0]

\* got := CompareVersions(v1, v2)
Compare ==
    /\ phase = "ver"
    /\ ~ver.done
    /\ ver' = [ver EXCEPT !.done = TRUE, !.res = CompareVersions(ver.v1, ver.v2)]
    /\ UNCHANGED <<arch, r, phase, newErr, hdr, fldrs, files, nextIdx, nextRdr, last,
                   decomps, served, freshPos, failed, heap, lims>>

NextVer == Compare

SpecVer == InitVer /\ [][NextVer]_vars

(***************************************************************************)
(* Properties.                                                             *)
(***************************************************************************)
HeaderErrors == {"invalid signature", "reserved fields", "unsupported version", "multi-part"}

\* the header as it was encoded asks for rejection
HeaderBad(h) ==
    \/ h.Signature # MSCF
    \/ ~(h.VersionMajor = 1 /\ h.VersionMinor = 3)
    \/ h.Reserved1 # 0 \/ h.Reserved2 # 0 \/ h.Reserved3 # 0
    \/ h.Flags % 2 = 1
    \/ (h.Flags \div 2) % 2 = 1

\* C1: once New has returned on a source that holds a complete header, it
\* has rejected the archive with one of the four header errors exactly when
\* the encoded header has a wrong signature, a version other than 1.3, a
\* nonzero reserved field or a previous/next-cabinet flag; the reserved-area
\* flag, SetID, ICabinet and CBCabinet play no part.
C1_HeaderRejection ==
    (phase \in {"open", "rejected", "crashed"} /\ Len(r.data) >= HdrSize)
        => ((newErr \in HeaderErrors) <=> HeaderBad(arch.hdr))

\* New accepted a header with the reserved-area flag, a SetID, an ICabinet
\* and a CBCabinet of 0
C1_Witness ==
    /\ phase = "open"
    /\ arch.hdr.Flags = hdrReservePresent
    /\ arch.hdr.SetID # 0
    /\ arch.hdr.ICabinet # 0
    /\ arch.hdr.CBCabinet = 0

\* the file-table entry (as encoded) that a Content call resolved to
Resolved == arch.files[last.entry]

\* C2: a Content call whose folder decompressed to a buffer of length L
\* fails if offset + size > L and otherwise returns bytes
\* [offset, offset + size) of that buffer, zero-size files and files ending
\* at L included.
C2_ContentRange ==
    (last.op = "Content" /\ last.entry > 0 /\ last.fd.err = "")
        => IF Resolved.UOffFolderStart + Resolved.CBFile > Len(last.fd.buf)
           THEN last.err # "" /\ ~last.rdr
           ELSE /\ last.err = ""
                /\ last.rdr
                /\ last.out = SubSeq(last.fd.buf, Resolved.UOffFolderStart + 1,
                                     Resolved.UOffFolderStart + Resolved.CBFile)

\* the indices of the encoded file table that carry a name
Matches(name) == {i \in 1..Len(arch.files) : arch.files[i].name = name}

First(S) == CHOOSE i \in S : \A j \in S : i <= j

\* Content(name) on a Cabinet whose file table holds entry i alone
Alone(i, name) ==
    ContentCall(SeekStart(r, freshPos), fldrs, <<files[i]>>, name).call

\* C3: a Content call resolves the name to the lowest-index entry carrying
\* it and returns what that entry alone yields; for a name no entry carries
\* it returns the not-found error, no reader, and decompresses nothing.
C3_FirstMatch ==
    (last.op = "Content")
        => IF Matches(last.name) = {}
           THEN last.err = "not found" /\ ~last.rdr /\ last.nfd = 0
           ELSE /\ last.entry = First(Matches(last.name))
                /\ last.err = Alone(last.entry, last.name).err
                /\ last.rdr = Alone(last.entry, last.name).rdr
                /\ last.out = Alone(last.entry, last.name).out

\* Content returned the bytes of the first of two entries of one name, the
\* second of which would have failed
C3_Witness ==
    /\ last.op = "Content"
    /\ last.err = ""
    /\ Cardinality(Matches(last.name)) >= 2
    /\ \E j \in Matches(last.name) : Alone(j, last.name).err # ""

\* the folders the encoded file table refers to
FoldersUsed == {arch.files[i].IFolder : i \in 1..Len(arch.files)}

\* the entries that start a run of consecutive entries of one folder
RunStarts ==
    {i \in 1..Len(arch.files) : i = 1 \/ arch.files[i - 1].IFolder # arch.files[i].IFolder}

\* the file table keeps the entries of every folder together
Grouped ==
    \A i, j \in 1..Len(arch.files) :
        (i < j /\ arch.files[i].IFolder = arch.files[j].IFolder)
            => \A k \in i..j : arch.files[k].IFolder = arch.files[i].IFolder

AtEndOfSequence == last.op = "Next" /\ last.err = "EOF"

\* C4 as stated: when Next signals the end of the sequence it has
\* decompressed exactly as many times as the file table has distinct folders.
C4_OncePerFolder == AtEndOfSequence => decomps = Cardinality(FoldersUsed)

\* C4 amended: when Next signals the end of the sequence it has decompressed
\* once per run of consecutive entries of one folder; that is once per
\* distinct folder when the table keeps every folder's entries together.
C4_OncePerRun ==
    AtEndOfSequence
        => /\ decomps = Cardinality(RunStarts)
           /\ Grouped => decomps = Cardinality(FoldersUsed)

\* three files in two folders were iterated with two decompressions
C4_Witness ==
    /\ AtEndOfSequence
    /\ Len(arch.files) = 3
    /\ Cardinality(FoldersUsed) = 2
    /\ decomps = 2

\* C5: nextIdx never decreases; a Next call that returns a reader returns
\* the name and size of the entry numbered by the count of earlier such
\* calls and advances nextIdx by one; a Next call that returns an error
\* leaves nextIdx alone; with nextIdx at the file count Next returns io.EOF
\* and no reader.
C5_Step ==
    /\ nextIdx' >= nextIdx
    /\ CabinetNext =>
        /\ last'.err = "" =>
            /\ nextIdx' = nextIdx + 1
            /\ last'.rdr
            /\ served < Len(arch.files)
            /\ last'.info.name = arch.files[served + 1].name
            /\ last'.info.size = arch.files[served + 1].CBFile
        /\ last'.err # "" => nextIdx' = nextIdx /\ ~last'.rdr
        /\ nextIdx = Len(arch.files) => last'.err = "EOF"
        /\ last'.err = "EOF" => nextIdx = Len(arch.files)

C5_ForwardOnly == [][C5_Step]_vars

\* after three files were handed out Next answered io.EOF
C5_Witness ==
    /\ AtEndOfSequence
    /\ served = 3
    /\ nextIdx = 3

\* the folder (as encoded) that a call handed to folderData
Opened == arch.folders[last.folder + 1]

RanFolderData == last.nfd = 1 /\ last.folder < Len(arch.folders)

AllCountsEqual(fo) ==
    \A i \in 1..Len(fo.blocks) : fo.blocks[i].CBData = fo.blocks[i].CBUncomp

Payloads(fo) == Concat([i \in 1..Len(fo.blocks) |-> fo.blocks[i].payload])

\* C6: on a source that holds the whole image, decompressing a folder whose
\* compression method (the low four bits of TypeCompress) is "none" returns
\* the concatenation of its block payloads when every block has CBData =
\* CBUncomp, and fails without a buffer when some block has not.
C6_StoredFolder ==
    (RanFolderData /\ arch.cut = 0 /\ Opened.TypeCompress % 16 = compNone)
        => IF AllCountsEqual(Opened)
           THEN last.fd.err = "" /\ last.fd.buf = Payloads(Opened)
           ELSE last.fd.err # "" /\ last.fd.buf = <<>>

\* C7: in every folderData call the dictionary handed to the decoder of
\* the first block is empty, whatever was decompressed before, and the one
\* handed to the decoder of block N is the output of block N-1 of the same
\* call; a decompressed MS-ZIP folder had one decoder per block.
C7_Dictionary ==
    (last.nfd = 1)
        => /\ \A n \in 1..Len(last.fd.dicts) :
                IF n = 1 THEN last.fd.dicts[n] = <<>>
                ELSE n - 1 <= Len(last.fd.outs) /\ last.fd.dicts[n] = last.fd.outs[n - 1]
           /\ (RanFolderData /\ last.fd.err = "" /\ Opened.TypeCompress = compMSZIP)
                => Len(last.fd.dicts) = Len(Opened.blocks)

\* the second MS-ZIP folder in a row was decompressed, its second block
\* against the output of its first
C7_Witness ==
    /\ last.op = "Next"
    /\ decomps = 2
    /\ last.fd.err = ""
    /\ Len(last.fd.dicts) = 2
    /\ last.fd.dicts[2] # <<>>
    /\ last.fd.dicts[2] = last.fd.outs[1]

\* C8: folderData never fails with "unsupported compression" on a folder of
\* a Cabinet that New returned.
C8_NoUnsupported ==
    (last.nfd = 1 /\ last.folder < Len(fldrs)) => last.fd.err # "unsupported compression"

\* a freshly parsed Cabinet over the same source, and its Content(name)
Fresh == NewCabinet(SeekStart(r, 0))
FreshContent(name) == ContentCall(Fresh.r, Fresh.fldrs, Fresh.files, name).call

ContentOrNext == (\E name \in QueryNames : Content(name)) \/ CabinetNext

C9_Step ==
    (ContentOrNext /\ last'.err # "") => UNCHANGED <<hdr, fldrs, files, nextIdx, nextRdr>>

C9_Later ==
    (/\ failed.any
     /\ last.op = "Content"
     /\ FreshContent(last.name).entry > 0
     /\ FreshContent(last.name).folder # failed.folder
     /\ FreshContent(last.name).fd.err = "")
        => /\ last.err = FreshContent(last.name).err
           /\ last.rdr = FreshContent(last.name).rdr
           /\ last.out = FreshContent(last.name).out

\* C9: a Content or Next call that returns an error leaves hdr, fldrs,
\* files, nextIdx and nextRdr as they were; and once a call has failed, a
\* Content call for a file of another folder, one that decompresses on a
\* freshly parsed Cabinet, returns what it returns on that fresh Cabinet.
C9_ErrorsLocal == [][C9_Step]_vars /\ []C9_Later

\* after a decode error in one folder, Content returned the bytes of a file
\* of the other folder
C9_Witness ==
    /\ failed.any
    /\ failed.err = "invalid MS-ZIP signature"
    /\ last.op = "Content"
    /\ last.err = ""
    /\ last.out # <<>>
    /\ last.folder # failed.folder

\* the order of two sequences by their first difference (of two strings:
\* byte-wise lexicographic)
Lexico(a, b) ==
    IF a = b THEN 0
    ELSE LET diff == {i \in 1..Min(Len(a), Len(b)) : a[i] # b[i]}
         IN  IF diff = {} THEN (IF Len(a) < Len(b) THEN -1 ELSE 1)
             ELSE IF a[First(diff)] < b[First(diff)] THEN -1 ELSE 1

Triple(sv) == <<sv.Major, sv.Minor, sv.Patch>>

Compared(a, b, res) == (ver.v1 = a /\ ver.v2 = b) => ver.res = res

\* the cases of TestVersionComparison
Examples ==
    /\ Compared(V100, V101, -1)
    /\ Compared(V100, V100, 0)
    /\ Compared(V123, VHundred, 1)
    /\ Compared(V12, V9, -1)
    /\ Compared(V09, V10, -1)
    /\ Compared(V1, V1, 0)
    /\ Compared(RQR30, RQR29, 1)

\* C10 as stated: the result is -1, 0 or 1; the component-wise comparison
\* of the three numbers when both strings parse, the byte-wise comparison
\* of the strings otherwise; and the seven examples hold.
C10_AsStated ==
    ver.done
        => /\ ver.res \in {-1, 0, 1}
           /\ IF SemverMake(ver.v1).ok /\ SemverMake(ver.v2).ok
              THEN ver.res = Lexico(Triple(SemverMake(ver.v1)), Triple(SemverMake(ver.v2)))
              ELSE ver.res = Lexico(ver.v1, ver.v2)
           /\ Examples

\* C10 amended: as stated, but when both strings parse and the three
\* numbers are equal the pre-release tags decide: a version without one is
\* the greater, two tags compare identifier by identifier, and the build
\* tail is ignored.
C10_Precedence ==
    ver.done
        => /\ ver.res \in {-1, 0, 1}
           /\ LET s1 == SemverMake(ver.v1)
                  s2 == SemverMake(ver.v2)
              IN  IF s1.ok /\ s2.ok
                  THEN IF Triple(s1) # Triple(s2) THEN ver.res = Lexico(Triple(s1), Triple(s2))
                       ELSE IF s1.Pre = <<>> /\ s2.Pre = <<>> THEN ver.res = 0
                       ELSE IF s1.Pre = <<>> THEN ver.res = 1
                       ELSE IF s2.Pre = <<>> THEN ver.res = -1
                       ELSE ver.res = PreCompare(s1.Pre, s2.Pre)
                  ELSE ver.res = Lexico(ver.v1, ver.v2)
           /\ Examples

\* "1.0.0-1" was found to be less than "1.0.0"
C10_Witness ==
    /\ ver.done
    /\ ver.v1 = V100 \o <<45, 49>>
    /\ ver.v2 = V100
    /\ ver.res = -1

\* the payload of a block (as encoded) begins with "CK"
Signed(b) == Len(b.payload) >= 2 /\ SubSeq(b.payload, 1, 2) = CK

\* the blocks of a folder (as encoded) whose payload does not begin with "CK"
Unsigned(fo) == {i \in 1..Len(fo.blocks) : ~Signed(fo.blocks[i])}

\* C11: no folderData call ends in a run-time panic; and on a source that
\* holds the whole image, a folderData call on an MS-ZIP folder that decoded
\* every block before the first one whose payload does not begin with "CK"
\* (payloads of 0 or 1 bytes included) returns the invalid-signature error.
C11_BadSignature ==
    /\ last.fd.err # "panic"
    /\ (/\ RanFolderData
        /\ arch.cut = 0
        /\ Opened.TypeCompress = compMSZIP
        /\ Unsigned(Opened) # {}
        /\ Len(last.fd.outs) >= First(Unsigned(Opened)) - 1)
            => last.fd.err = "invalid MS-ZIP signature"

\* the end of entry i of the file table as it was encoded (0: its start)
TableEnd(i) ==
    FilesOffset(arch.folders) + SumSeq([j \in 1..i |-> Len(EncodeFile(arch.files[j]))])

\* the file loop of New stopped after i iterations
AfterRecords(i) == ReadFiles(SeekStart(r, hdr.COFFFiles), 0, i, <<>>)

\* C12: in a Cabinet that New returned, after i iterations of the file loop
\* the source cursor is one byte past the terminator of name i, although the
\* buffered reader had read further, and the entries read so far are the
\* first i entries of the table; the file list holds the encoded entries,
\* names without their terminator, in table order and `file count` of
\* them; and New fails on a source that ends inside the file table.
C12_FileTable ==
    /\ phase \in {"open", "crashed"} =>
        /\ Len(files) = arch.hdr.CFiles
        /\ files = arch.files
        /\ freshPos = TableEnd(Len(arch.files))
        /\ \A i \in 0..Len(files) :
            /\ AfterRecords(i).err = ""
            /\ AfterRecords(i).r.pos = TableEnd(i)
            /\ AfterRecords(i).files = SubSeq(arch.files, 1, i)
        /\ last.op = "FileList" =>
            last.names = [i \in 1..Len(arch.files) |-> arch.files[i].name]
    /\ (phase # "raw" /\ Len(r.data) < TableEnd(Len(arch.files))) =>
        /\ phase = "rejected"
        /\ Len(r.data) >= TableEnd(0) => newErr \in {"deserialize file", "read filename"}

\* New returned a Cabinet of three entries whose table ends before the end
\* of the source, so the buffered name reader had read past every name
C12_Witness ==
    /\ phase = "open"
    /\ Len(files) = 3
    /\ freshPos = TableEnd(3)
    /\ freshPos < Len(r.data)
    /\ ReadBytesZero(SeekStart(r, TableEnd(0) + FileRecSize)).r.pos = Len(r.data)

\* the file-table entry (as encoded) of the k-th reader Next returned, and
\* the bytes.Reader it reads from
EntryOf(k) == arch.files[lims[k].entry]
ObjOf(k) == Deref(heap, nextRdr, lims[k].R)

\* the k-th reader is the latest one returned and every byte consumed from
\* its bytes.Reader since Next positioned it was consumed through it
Undisturbed(k) ==
    /\ k = Len(lims)
    /\ ObjOf(k).off = EntryOf(k).UOffFolderStart + Len(lims[k].got)

\* C13: a reader that Next returned and that was read until io.EOF before
\* the next call of Next (and before any read of another reader) has
\* delivered exactly CBFile bytes, the bytes [UOffFolderStart,
\* UOffFolderStart + CBFile) of its folder's buffer; so no reader was
\* returned and exhausted for an entry that reaches past the buffer.
C13_ExactBytes ==
    \A k \in 1..Len(lims) :
        (Undisturbed(k) /\ lims[k].eof)
            => /\ Len(lims[k].got) = EntryOf(k).CBFile
               /\ EntryOf(k).UOffFolderStart + EntryOf(k).CBFile <= Len(ObjOf(k).buf)
               /\ lims[k].got = SubSeq(ObjOf(k).buf, EntryOf(k).UOffFolderStart + 1,
                                       EntryOf(k).UOffFolderStart + EntryOf(k).CBFile)

\* m calls of Next in a row on a freshly parsed Cabinet over the same
\* source: what the last of them returned, and the Cabinet afterwards
RECURSIVE Isolated(_)
Isolated(m) ==
    IF m = 0
    THEN [call |-> NoCall, r |-> Fresh.r, nextIdx |-> 0, nextRdr |-> NoRdr]
    ELSE LET before == Isolated(m - 1)
         IN  NextCall(before.r, Fresh.fldrs, Fresh.files, before.nextIdx, before.nextRdr)

\* the bytes of the reader a Next call returned, read to exhaustion
BytesOf(call, nrdr) == Drain(LimitReader(1, call.limit, call.entry), nrdr)

\* the Next call that just returned, as it returns in isolation: after the
\* same number of successful calls
SameCall == IF last.err = "" THEN Isolated(served) ELSE Isolated(served + 1)

C14_Frame ==
    ((\E name \in QueryNames : Content(name)) \/ FileList)
        => UNCHANGED <<nextIdx, nextRdr, heap, lims>>

C14_Same ==
    /\ (last.op = "Next")
        => /\ last.err = SameCall.call.err
           /\ last.rdr = SameCall.call.rdr
           /\ last.info = SameCall.call.info
           /\ last.rdr => BytesOf(last, nextRdr) = BytesOf(SameCall.call, SameCall.nextRdr)
    /\ (last.op = "Content")
        => /\ last.err = FreshContent(last.name).err
           /\ last.rdr = FreshContent(last.name).rdr
           /\ last.out = FreshContent(last.name).out

\* C14: Content and FileList leave nextIdx, nextRdr and the readers handed
\* out as they were; whatever calls of Content and FileList came in between,
\* a Next call returns the error or the name, size and bytes that the same
\* call returns when only Next is called on a freshly parsed Cabinet, and a
\* Content call returns what it returns on a freshly parsed Cabinet.
C14_Interleaving == [][C14_Frame]_vars /\ []C14_Same

\* the second Next call returned a file of the folder it had cached, after
\* a Content call had left the source cursor somewhere else than the first
\* Next call had
C14_Witness ==
    /\ last.op = "Next"
    /\ last.err = ""
    /\ served = 2
    /\ last.nfd = 0
    /\ BytesOf(last, nextRdr) # <<>>
    /\ r.pos # Isolated(2).r.pos

\* what the k-th reader delivered so far is the head of its file's bytes
HeadOfFile(k) ==
    /\ Len(lims[k].got) <= EntryOf(k).CBFile
    /\ EntryOf(k).UOffFolderStart + Len(lims[k].got) <= Len(ObjOf(k).buf)
    /\ lims[k].got = SubSeq(ObjOf(k).buf, EntryOf(k).UOffFolderStart + 1,
                            EntryOf(k).UOffFolderStart + Len(lims[k].got))

\* C15: whatever was read, and whenever, from a reader that Next returned
\* before its latest successful call, is the head of that reader's file: the
\* bytes from UOffFolderStart on of its folder's buffer, in order.
C15_Independent ==
    \A k \in 1..Len(lims) : k < Len(lims) => HeadOfFile(k)

====
